---- MODULE Spec2Model ----
(***************************************************************************)
(* PingLayer: JWT authentication, identity resolution and tenant-scoped    *)
(* campaign / recipient services, modelled as a state machine.             *)
(*                                                                         *)
(* Time is the UTC clock in whole seconds (python-jose stores exp and iat  *)
(* as timegm(utctimetuple()), i.e. truncated to seconds, and compares      *)
(* them with the truncated current time).                                  *)
(***************************************************************************)
EXTENDS Integers, Sequences, FiniteSets, TLC

VARIABLES
    users,            \* table users: set of rows
    companies,        \* table companies: set of rows
    campaigns,        \* table campaigns: set of rows
    recipients,       \* table recipients: set of rows
    nextUserId,       \* users.id sequence
    nextCompanyId,    \* companies.id sequence
    nextCampaignId,   \* campaigns.id sequence
    nextRecipientId,  \* recipients.id sequence
    now,              \* datetime.utcnow(), whole seconds
    token,            \* the bearer token the client currently holds
    minted,           \* history: the create_access_token call that made it
    requests,         \* RateLimiter.requests: key -> list of timestamps
    allowed,          \* history: the requests check_rate_limit allowed
    last              \* the response to the most recent request

vars == <<users, companies, campaigns, recipients, nextUserId, nextCompanyId,
          nextCampaignId, nextRecipientId, now, token, minted, requests,
          allowed, last>>

authVars == <<users, companies, nextUserId, nextCompanyId, now, token, minted>>
dataVars == <<campaigns, recipients, nextCampaignId, nextRecipientId>>
limiterVars == <<requests, allowed>>

----------------------------------------------------------------------------
(* Bounds of the model *)

MaxUsers == 2         \* registrations explored
MaxSeconds == 1       \* seconds the clock runs past 0 and past the default TTL
MaxCampaigns == 2     \* campaigns created
MaxRecipients == 2    \* recipient rows created
MaxCalls == 4        \* requests the rate limiter allows in a behaviour
MaxHashes == 3        \* calls of hash_password

(* Configuration (app/config.py) *)

access_token_expire_minutes == 1440
SECRET_KEY == "configured-secret"
OtherKey == "other-secret"

DefaultTtl == access_token_expire_minutes * 60
Horizon == DefaultTtl + MaxSeconds

\* the clock readings explored: the first seconds, and those from the
\* default TTL on
ClockReading(t) == t <= Horizon /\ t % DefaultTtl <= MaxSeconds

----------------------------------------------------------------------------
(* Values *)

Emails == {"a@x.io", "b@x.io"}
NoEmail == "<None>"

\* A JSON claim value that int() may be applied to: t is its Python type.
StrV(n) == [t |-> "str", v |-> n]
IntV(n) == [t |-> "int", v |-> n]
NoneV == [t |-> "NoneType", v |-> 0]

\* expires_delta: Optional[timedelta], in seconds
NoDelta == [none |-> TRUE, secs |-> 0]
Delta(s) == [none |-> FALSE, secs |-> s]

\* passwords, by what validate_password_strength reads of them; id tells
\* two passwords of the same shape apart
\* two passwords of the same shape apart; nul says whether it holds a NUL
\* character, which passlib's bcrypt handler refuses (NullPasswordError)
Password(i, n, u, l, d) ==
    [id |-> i, len |-> n, upper |-> u, lower |-> l, digit |-> d, nul |-> FALSE]
StrongPw == Password(1, 8, TRUE, TRUE, TRUE)
OtherStrongPw == Password(2, 9, TRUE, TRUE, TRUE)
ShortPw == Password(3, 7, TRUE, TRUE, TRUE)
NoDigitPw == Password(4, 8, TRUE, TRUE, FALSE)
NoUpperPw == Password(5, 8, FALSE, TRUE, TRUE)
NoLowerPw == Password(6, 8, TRUE, FALSE, TRUE)
NulPw == [Password(7, 9, TRUE, TRUE, TRUE) EXCEPT !.nul = TRUE]

\* company names, as character sequences
CompanyNames == {<<"A", "c">>, <<"a", "c">>, <<"b", " ">>}

----------------------------------------------------------------------------
(* app/core/security.py: password hashing *)

\* pwd_context.hash and pwd_context.verify raise for this password
password_raises(password) == password.nul

\* hash_password reusing one salt
hash_password_fixed_salt(password, salt) == [salt |-> 0, digest |-> <<0, password.id>>]

\* bcrypt: the hash string embeds the salt, which pwd_context.hash draws
\* anew at each call
hash_password(password, salt) == [salt |-> salt, digest |-> <<salt, password.id>>]

\* verify_password accepting every password
verify_password_any(plain_password, hashed_password) == TRUE

verify_password(plain_password, hashed_password) ==
    hashed_password.digest = <<hashed_password.salt, plain_password.id>>

\* validate_password_strength without the test for a digit
validate_password_strength_no_digit(password) ==
    IF password.len < 8 THEN FALSE
    ELSE IF ~password.upper THEN FALSE
    ELSE IF ~password.lower THEN FALSE
    ELSE TRUE

validate_password_strength(password) ==
    IF password.len < 8 THEN FALSE
    ELSE IF ~password.upper THEN FALSE
    ELSE IF ~password.lower THEN FALSE
    ELSE IF ~password.digit THEN FALSE
    ELSE TRUE

----------------------------------------------------------------------------
(* Tokens.  A JWS token is header.payload.signature; the signature segment *)
(* is base64url of the 32 HMAC-SHA256 bytes: 43 characters, the last of    *)
(* which carries 4 signature bits and 2 unused bits.                       *)

ClaimNames == {"sub", "company_id", "email", "is_admin", "exp", "iat"}

\* A dict of claims: the keys present, and a value for each (defaults for absent keys)
EmptyClaims ==
    [keys |-> {}, sub |-> NoneV, company_id |-> NoneV, email |-> NoEmail,
     is_admin |-> FALSE, exp |-> 0, iat |-> 0]

NoToken == [form |-> "none", claims |-> EmptyClaims,
            sig |-> [key |-> "", intact |-> FALSE, pad |-> 0]]
MalformedToken == [form |-> "malformed", claims |-> EmptyClaims,
                   sig |-> [key |-> "", intact |-> FALSE, pad |-> 0]]

\* jose.jwt.encode: HS256 over header.payload with `key`; canonical base64url
\* leaves the unused bits of the last character zero
jwt_encode(claims, key) ==
    [form |-> "jws", claims |-> claims,
     sig |-> [key |-> key, intact |-> TRUE, pad |-> 0]]

\* create_access_token: t_expire and t_iat are the two readings of utcnow()
create_access_token(data, expires_delta, t_expire, t_iat) ==
    LET expire == IF (~expires_delta.none /\ expires_delta.secs # 0)
                  THEN t_expire + expires_delta.secs
                  ELSE t_expire + DefaultTtl
        to_encode == [data EXCEPT !.keys = data.keys \cup {"exp", "iat"},
                                  !.exp = expire, !.iat = t_iat]
    IN jwt_encode(to_encode, SECRET_KEY)

\* jose.jwt.decode(token, key, algorithms=[HS256]): the signature is checked
\* first (on the decoded bytes: the unused bits of the last character are
\* dropped by the base64 decoder), then the registered claims.
jwt_decode(tok, key, t) ==
    IF tok.form # "jws" THEN [ok |-> FALSE, err |-> "JWTError", payload |-> EmptyClaims]
    ELSE IF ~(tok.sig.key = key /\ tok.sig.intact)
    THEN [ok |-> FALSE, err |-> "JWTError", payload |-> EmptyClaims]
    ELSE IF "exp" \in tok.claims.keys /\ tok.claims.exp < t
    THEN [ok |-> FALSE, err |-> "ExpiredSignatureError", payload |-> EmptyClaims]
    ELSE IF "sub" \in tok.claims.keys /\ tok.claims.sub.t \notin {"str", "text"}
    THEN [ok |-> FALSE, err |-> "JWTClaimsError", payload |-> EmptyClaims]
    ELSE [ok |-> TRUE, err |-> "", payload |-> tok.claims]

\* decode_access_token: the payload, or None on any JWTError
decode_access_token(tok, t) ==
    LET r == jwt_decode(tok, SECRET_KEY, t)
    IN IF r.ok THEN [none |-> FALSE, payload |-> r.payload]
       ELSE [none |-> TRUE, payload |-> EmptyClaims]

create_user_token(user_id, company_id, email, t_expire, t_iat) ==
    LET token_data == [EmptyClaims EXCEPT !.keys = {"sub", "company_id", "email"},
                                          !.sub = StrV(user_id),
                                          !.company_id = StrV(company_id),
                                          !.email = email]
    IN create_access_token(token_data, NoDelta, t_expire, t_iat)

\* payload.get(k)
GetTagged(payload, k) == IF k \in payload.keys THEN payload[k] ELSE NoneV
GetEmail(payload) == IF "email" \in payload.keys THEN payload.email ELSE NoEmail

\* int(x): raises TypeError on None, ValueError on a non-numeric string
TextV == [t |-> "text", v |-> 0]
IntRaises(x) == x.t \in {"NoneType", "text"}

NoUserInfo == [user_id |-> 0, company_id |-> 0, email |-> NoEmail]

\* extract_user_from_token: kind "none" is a None result, "raise" an
\* exception from int() that the function does not catch
extract_user_from_token(tok, t) ==
    LET d == decode_access_token(tok, t)
        sub == GetTagged(d.payload, "sub")
        cid == GetTagged(d.payload, "company_id")
    IN IF d.none THEN [kind |-> "none", info |-> NoUserInfo]
       ELSE IF IntRaises(sub) \/ IntRaises(cid)
       THEN [kind |-> "raise", info |-> NoUserInfo]
       ELSE [kind |-> "ok",
             info |-> [user_id |-> sub.v, company_id |-> cid.v,
                       email |-> GetEmail(d.payload)]]

----------------------------------------------------------------------------
(* app/core/dependencies.py *)

NoIdentity == [user_id |-> 0, company_id |-> 0, email |-> NoEmail]
CurrentUser(user_id, company_id, email) ==
    [user_id |-> user_id, company_id |-> company_id, email |-> email]

UserRows(user_id) == {u \in users : u.id = user_id}

\* get_current_user without the existence check
get_current_user_no_existence_check(tok, t) ==
    LET user_info == extract_user_from_token(tok, t)
        rows == UserRows(user_info.info.user_id)
    IN IF user_info.kind = "raise"
       THEN [status |-> 500, lookups |-> 0, identity |-> NoIdentity]
       ELSE IF user_info.kind = "none"
       THEN [status |-> 401, lookups |-> 0, identity |-> NoIdentity]
       ELSE IF rows # {} /\ \E u \in rows : ~u.is_active
       THEN [status |-> 403, lookups |-> 1, identity |-> NoIdentity]
       ELSE [status |-> 200, lookups |-> 1,
             identity |-> CurrentUser(user_info.info.user_id,
                                      user_info.info.company_id,
                                      user_info.info.email)]

\* get_current_user looking the subject up before the token is verified
get_current_user_lookup_first(tok, t) ==
    LET user_info == extract_user_from_token(tok, t)
        rows == IF user_info.kind = "ok" THEN UserRows(user_info.info.user_id)
                ELSE UserRows(tok.claims.sub.v)
    IN IF user_info.kind = "raise"
       THEN [status |-> 500, lookups |-> 0, identity |-> NoIdentity]
       ELSE IF rows = {}
       THEN [status |-> 404, lookups |-> 1, identity |-> NoIdentity]
       ELSE IF user_info.kind = "none"
       THEN [status |-> 401, lookups |-> 1, identity |-> NoIdentity]
       ELSE LET user == CHOOSE u \in rows : TRUE
            IN IF ~user.is_active
               THEN [status |-> 403, lookups |-> 1, identity |-> NoIdentity]
               ELSE [status |-> 200, lookups |-> 1,
                     identity |-> CurrentUser(user_info.info.user_id,
                                              user_info.info.company_id,
                                              user_info.info.email)]

\* get_current_user without the is_active check
get_current_user_no_active_check(tok, t) ==
    LET user_info == extract_user_from_token(tok, t)
        rows == UserRows(user_info.info.user_id)
    IN IF user_info.kind = "raise"
       THEN [status |-> 500, lookups |-> 0, identity |-> NoIdentity]
       ELSE IF user_info.kind = "none"
       THEN [status |-> 401, lookups |-> 0, identity |-> NoIdentity]
       ELSE IF rows = {}
       THEN [status |-> 404, lookups |-> 1, identity |-> NoIdentity]
       ELSE [status |-> 200, lookups |-> 1,
             identity |-> CurrentUser(user_info.info.user_id,
                                      user_info.info.company_id,
                                      user_info.info.email)]

\* get_current_user building the identity from the store's row
get_current_user_from_store(tok, t) ==
    LET user_info == extract_user_from_token(tok, t)
        rows == UserRows(user_info.info.user_id)
    IN IF user_info.kind = "raise"
       THEN [status |-> 500, lookups |-> 0, identity |-> NoIdentity]
       ELSE IF user_info.kind = "none"
       THEN [status |-> 401, lookups |-> 0, identity |-> NoIdentity]
       ELSE IF rows = {}
       THEN [status |-> 404, lookups |-> 1, identity |-> NoIdentity]
       ELSE LET user == CHOOSE u \in rows : TRUE
            IN IF ~user.is_active
               THEN [status |-> 403, lookups |-> 1, identity |-> NoIdentity]
               ELSE [status |-> 200, lookups |-> 1,
                     identity |-> CurrentUser(user.id, user.company_id, user.email)]

\* get_current_user: the HTTP status of the outcome (500: an exception that
\* is no HTTPException), the number of store lookups made, and the identity
get_current_user(tok, t) ==
    LET user_info == extract_user_from_token(tok, t)
        rows == UserRows(user_info.info.user_id)
    IN IF user_info.kind = "raise"
       THEN [status |-> 500, lookups |-> 0, identity |-> NoIdentity]
       ELSE IF user_info.kind = "none"
       THEN [status |-> 401, lookups |-> 0, identity |-> NoIdentity]
       ELSE IF rows = {}
       THEN [status |-> 404, lookups |-> 1, identity |-> NoIdentity]
       ELSE LET user == CHOOSE u \in rows : TRUE
            IN IF ~user.is_active
               THEN [status |-> 403, lookups |-> 1, identity |-> NoIdentity]
               ELSE [status |-> 200, lookups |-> 1,
                     identity |-> CurrentUser(user_info.info.user_id,
                                              user_info.info.company_id,
                                              user_info.info.email)]

\* get_current_user_optional: `raised` is an exception leaving the function
\* (only HTTPException is caught), `none` a None result
get_current_user_optional(tok, t) ==
    LET r == get_current_user(tok, t)
    IN IF tok.form = "none"
       THEN [raised |-> FALSE, none |-> TRUE, identity |-> NoIdentity]
       ELSE IF r.status = 500
       THEN [raised |-> TRUE, none |-> FALSE, identity |-> NoIdentity]
       ELSE IF r.status \in {401, 403, 404}
       THEN [raised |-> FALSE, none |-> TRUE, identity |-> NoIdentity]
       ELSE [raised |-> FALSE, none |-> FALSE, identity |-> r.identity]

\* require_admin without the is_admin test
require_admin_any_user(current_user) ==
    IF UserRows(current_user.user_id) = {}
    THEN [status |-> 403, identity |-> NoIdentity]
    ELSE [status |-> 200, identity |-> current_user]

\* require_admin: a fresh query of the user row by current_user.user_id
require_admin(current_user) ==
    LET rows == UserRows(current_user.user_id)
    IN IF rows = {} \/ \E u \in rows : ~u.is_admin
       THEN [status |-> 403, identity |-> NoIdentity]
       ELSE [status |-> 200, identity |-> current_user]

----------------------------------------------------------------------------
(* app/modules/auth/service.py *)

Lower(c) == IF c = "A" THEN "a" ELSE IF c = "B" THEN "b" ELSE c
Dash(c) == IF c = " " \/ c = "_" THEN "-" ELSE c

\* a slug that is the name as given
Slug_as_given(company_name) == company_name

\* company_name.lower().replace(" ", "-").replace("_", "-")
Slug(company_name) == [i \in DOMAIN company_name |-> Dash(Lower(company_name[i]))]

NoUser == [id |-> 0, email |-> NoEmail, hashed_password |-> hash_password(StrongPw, 0),
           company_id |-> 0, is_active |-> FALSE, is_admin |-> FALSE]

\* register_new_user: the outcome, before anything is written.  "flush" is
\* the IntegrityError of the unique slug at db.flush()
register_outcome(email, password, company_name) ==
    IF ~validate_password_strength(password) THEN "weak"
    ELSE IF \E u \in users : u.email = email THEN "email"
    ELSE IF \E c \in companies : c.name = company_name THEN "name"
    ELSE IF \E c \in companies : c.slug = Slug(company_name) THEN "flush"
    ELSE IF password_raises(password) THEN "hash"
    ELSE "ok"

NewUser(email, password, salt) ==
    [id |-> nextUserId, email |-> email,
     hashed_password |-> hash_password(password, salt),
     company_id |-> nextCompanyId, is_active |-> TRUE, is_admin |-> FALSE]

\* the claims both auth endpoints put in the token
endpoint_token_data(user) ==
    [EmptyClaims EXCEPT !.keys = {"sub", "company_id", "is_admin"},
                        !.sub = StrV(user.id),
                        !.company_id = IntV(user.company_id),
                        !.is_admin = user.is_admin]

Idle == [op |-> "none", status |-> 0]
AuthResponse(op, status, user, tok) ==
    [op |-> op, status |-> status, user |-> user, access_token |-> tok]

Minted(at, expires_delta) == [at |-> at, expires_delta |-> expires_delta]

\* the body of a request to /register or /login (no company_name at login)
AuthRequest(email, password, company_name) ==
    [email |-> email, password |-> password, company_name |-> company_name]

\* the detail of an HTTPException: its fixed message and the exception text
\* formatted into it ("" when none)
Detail(msg, exc) == [msg |-> msg, exc |-> exc]
NoDetail == Detail("", "")

\* a request and its response
AuthReply(resp, req, detail) ==
    [op |-> resp.op, status |-> resp.status, user |-> resp.user,
     access_token |-> resp.access_token, req |-> req, detail |-> detail]

\* the detail register_new_user gives each refusal.  The IntegrityError of
\* the company INSERT is matched against "email" first, and its text holds
\* the statement, which names the companies.email column
register_detail(outcome) ==
    IF outcome = "weak" THEN Detail("Password must ...", "")
    ELSE IF outcome = "email" THEN Detail("Email already registered", "")
    ELSE IF outcome = "name" THEN Detail("Company name already taken", "")
    ELSE IF outcome = "flush" THEN Detail("Email already registered", "")
    ELSE IF outcome = "hash" THEN Detail("Registration failed: ", "NullPasswordError")
    ELSE NoDetail

\* `elapsed` (0 or 1) in the minting actions: whether the clock passes a
\* second boundary between the two readings of utcnow() in create_access_token
Elapsed == {0, 1}

\* POST /register
Register(email, password, company_name, salt, elapsed) ==
    /\ ClockReading(now + elapsed)
    /\ nextUserId <= MaxUsers
    /\ nextCompanyId <= MaxUsers + 1
    /\ LET outcome == register_outcome(email, password, company_name)
           user == NewUser(email, password, salt)
           req == AuthRequest(email, password, company_name)
           refused == AuthReply(AuthResponse("register", 400, NoUser, NoToken), req,
                                register_detail(outcome))
       IN \/ /\ outcome \in {"weak", "email", "name"}
             /\ last' = refused
             /\ UNCHANGED authVars
             /\ UNCHANGED limiterVars
          \/ /\ outcome = "flush"
             /\ nextCompanyId' = nextCompanyId + 1
             /\ last' = refused
             /\ UNCHANGED <<users, companies, nextUserId, now, token, minted>>
          \/ /\ outcome = "hash"
             /\ nextCompanyId' = nextCompanyId + 1
             /\ last' = AuthReply(AuthResponse("register", 500, NoUser, NoToken), req,
                                  register_detail(outcome))
             /\ UNCHANGED <<users, companies, nextUserId, now, token, minted>>
          \/ /\ outcome = "ok"
             /\ companies' = companies \cup
                    {[id |-> nextCompanyId, name |-> company_name,
                      slug |-> Slug(company_name)]}
             /\ users' = users \cup {user}
             /\ nextCompanyId' = nextCompanyId + 1
             /\ nextUserId' = nextUserId + 1
             /\ now' = now + elapsed
             /\ token' = create_access_token(endpoint_token_data(user), NoDelta,
                                             now, now + elapsed)
             /\ minted' = Minted(now, NoDelta)
             /\ last' = AuthReply(AuthResponse("register", 200, user, token'), req,
                                  NoDetail)
    /\ UNCHANGED dataVars
    /\ UNCHANGED limiterVars

LoginRefused(email, password, status, msg) ==
    AuthReply(AuthResponse("login", status, NoUser, NoToken),
              AuthRequest(email, password, <<>>), Detail(msg, ""))

\* POST /login
Login(email, password, elapsed) ==
    /\ ClockReading(now + elapsed)
    /\ \/ /\ ~\E u \in users : u.email = email
          /\ last' = LoginRefused(email, password, 401, "Invalid email or password")
          /\ UNCHANGED authVars
          /\ UNCHANGED limiterVars
       \/ \E user \in {u \in users : u.email = email} :
             IF ~user.is_active
             THEN /\ last' = LoginRefused(email, password, 403, "Account is inactive")
                  /\ UNCHANGED authVars
                  /\ UNCHANGED limiterVars
             ELSE IF password_raises(password)
             THEN FALSE    \* pwd_context.verify raises: see LoginRaises
             ELSE IF ~verify_password(password, user.hashed_password)
             THEN /\ last' = LoginRefused(email, password, 401,
                                          "Invalid email or password")
                  /\ UNCHANGED authVars
                  /\ UNCHANGED limiterVars
             ELSE /\ now' = now + elapsed
                  /\ token' = create_access_token(endpoint_token_data(user), NoDelta,
                                                  now, now + elapsed)
                  /\ minted' = Minted(now, NoDelta)
                  /\ last' = AuthReply(AuthResponse("login", 200, user, token'),
                                       AuthRequest(email, password, <<>>), NoDetail)
                  /\ UNCHANGED <<users, companies, nextUserId, nextCompanyId>>
    /\ UNCHANGED dataVars
    /\ UNCHANGED limiterVars

\* An exception of a lower layer: its class and its text, str(e)
Exception(type, text) == [type |-> type, text |-> text]
OperationalError == Exception("OperationalError", "connection refused")
IntegrityError == Exception("IntegrityError", "violates foreign key constraint")
TypeError == Exception("TypeError", "int() argument must be a string")
SQLAlchemyErrors == {"OperationalError", "IntegrityError"}

Environments == {"development", "production"}

\* app/main.py: the handlers of an exception that leaves the endpoint
database_exception_handler(exc) ==
    [status |-> 500, detail |-> Detail("Database error occurred", "")]

general_exception_handler(environment, exc) ==
    [status |-> 500,
     detail |-> IF environment = "production"
                THEN Detail("An unexpected error occurred", "")
                ELSE Detail(exc.type, exc.text)]

exception_handler(environment, exc) ==
    IF exc.type \in SQLAlchemyErrors THEN database_exception_handler(exc)
    ELSE general_exception_handler(environment, exc)

\* a request that met a lower-layer failure, and its response
FailureReply(op, environment, exc, response) ==
    [op |-> op, environment |-> environment, exc |-> exc,
     status |-> response.status, detail |-> response.detail]

\* POST /register when the store fails with `exc` at `point`: at the first
\* query (outside the try), at db.flush() or at db.commit() (inside it,
\* where `except Exception` turns it into an HTTPException)
RegisterStoreFailure(email, password, company_name, point, environment, exc) ==
    /\ validate_password_strength(password)
    /\ nextUserId <= MaxUsers
    /\ nextCompanyId <= MaxUsers + 1
    /\ point \in {"query", "flush", "commit"}
    /\ point # "query" => register_outcome(email, password, company_name) = "ok"
    /\ last' = FailureReply("register_store_failure", environment, exc,
                  IF point = "query" THEN exception_handler(environment, exc)
                  ELSE [status |-> 500,
                        detail |-> Detail("Registration failed: ", exc.text)])
    /\ IF point = "commit"
       THEN /\ nextCompanyId' = nextCompanyId + 1
            /\ \E consumed \in {0, 1} : nextUserId' = nextUserId + consumed
       ELSE UNCHANGED <<nextUserId, nextCompanyId>>
    /\ UNCHANGED <<users, companies, now, token, minted>>
    /\ UNCHANGED dataVars
    /\ UNCHANGED limiterVars

\* POST /login of an active user with a password pwd_context.verify
\* refuses: the ValueError leaves the endpoint
LoginRaises(email, password, environment) ==
    /\ password_raises(password)
    /\ \E u \in users : u.email = email /\ u.is_active
    /\ last' = FailureReply("login_raises", environment,
                             Exception("NullPasswordError", "password has NUL"),
                             exception_handler(environment,
                                 Exception("NullPasswordError", "password has NUL")))
    /\ UNCHANGED authVars
    /\ UNCHANGED limiterVars
    /\ UNCHANGED dataVars
    /\ UNCHANGED limiterVars

\* direct calls of hash_password and verify_password.  `hashes` is the
\* sequence of hash strings the calls so far have returned; the salt of a
\* call is taken to differ from every salt drawn before
HashesSoFar == IF last.op \in {"hash_password", "verify_password"} THEN last.hashes ELSE <<>>

NoHash == [salt |-> 0, digest |-> <<>>]

HashPassword(password) ==
    /\ Len(HashesSoFar) < MaxHashes
    /\ LET hashed == hash_password(password, Len(HashesSoFar) + 1)
       IN last' = IF password_raises(password)
                  THEN [op |-> "hash_password", status |-> 500, password |-> password,
                        hashed |-> NoHash, verified |-> FALSE, hashes |-> HashesSoFar]
                  ELSE [op |-> "hash_password", status |-> 200, password |-> password,
                        hashed |-> hashed, verified |-> FALSE,
                        hashes |-> Append(HashesSoFar, hashed)]
    /\ UNCHANGED authVars
    /\ UNCHANGED limiterVars
    /\ UNCHANGED dataVars
    /\ UNCHANGED limiterVars

VerifyPassword(password, i) ==
    /\ i \in 1 .. Len(HashesSoFar)
    /\ LET hashed == HashesSoFar[i]
       IN last' = IF password_raises(password)
                  THEN [op |-> "verify_password", status |-> 500, password |-> password,
                        hashed |-> hashed, verified |-> FALSE, hashes |-> HashesSoFar]
                  ELSE [op |-> "verify_password", status |-> 200, password |-> password,
                        hashed |-> hashed,
                        verified |-> verify_password(password, hashed),
                        hashes |-> HashesSoFar]
    /\ UNCHANGED authVars
    /\ UNCHANGED limiterVars
    /\ UNCHANGED dataVars
    /\ UNCHANGED limiterVars

\* a request to a protected endpoint whose get_current_user dependency
\* raises an exception that is no HTTPException
GetCurrentUserRaises(environment) ==
    /\ token.form # "none"
    /\ get_current_user(token, now).status = 500
    /\ last' = FailureReply("get_current_user_raises", environment, TypeError,
                             exception_handler(environment, TypeError))
    /\ UNCHANGED authVars
    /\ UNCHANGED limiterVars
    /\ UNCHANGED dataVars
    /\ UNCHANGED limiterVars

\* a direct call of create_user_token(user_id, company_id, email)
CreateUserToken(user_id, company_id, email, elapsed) ==
    /\ ClockReading(now + elapsed)
    /\ now' = now + elapsed
    /\ token' = create_user_token(user_id, company_id, email, now, now + elapsed)
    /\ minted' = Minted(now, NoDelta)
    /\ last' = [op |-> "create_user_token", status |-> 200]
    /\ UNCHANGED <<users, companies, nextUserId, nextCompanyId>>
    /\ UNCHANGED dataVars
    /\ UNCHANGED limiterVars

\* a direct call of create_access_token(data, expires_delta)
CreateAccessToken(data, expires_delta, elapsed) ==
    /\ ClockReading(now + elapsed)
    /\ now' = now + elapsed
    /\ token' = create_access_token(data, expires_delta, now, now + elapsed)
    /\ minted' = Minted(now, expires_delta)
    /\ last' = [op |-> "create_access_token", status |-> 200]
    /\ UNCHANGED <<users, companies, nextUserId, nextCompanyId>>
    /\ UNCHANGED dataVars
    /\ UNCHANGED limiterVars

\* a request to a protected endpoint: the get_current_user dependency
GetCurrentUser ==
    /\ token.form # "none"
    /\ LET r == get_current_user(token, now)
       IN last' = [op |-> "get_current_user", status |-> r.status,
                   lookups |-> r.lookups, identity |-> r.identity]
    /\ UNCHANGED authVars
    /\ UNCHANGED limiterVars
    /\ UNCHANGED dataVars
    /\ UNCHANGED limiterVars

\* a request to an endpoint with the get_current_user_optional dependency
GetCurrentUserOptional ==
    /\ LET r == get_current_user_optional(token, now)
       IN last' = [op |-> "get_current_user_optional",
                   status |-> IF r.raised THEN 500 ELSE 200,
                   none |-> r.none, identity |-> r.identity]
    /\ UNCHANGED authVars
    /\ UNCHANGED limiterVars
    /\ UNCHANGED dataVars
    /\ UNCHANGED limiterVars

\* a request to an endpoint with the require_admin dependency, whose
\* get_current_user dependency has returned current_user; the store may
\* have changed since
RequireAdmin(current_user) ==
    /\ LET r == require_admin(current_user)
       IN last' = [op |-> "require_admin", status |-> r.status,
                   cu |-> current_user, identity |-> r.identity]
    /\ UNCHANGED authVars
    /\ UNCHANGED limiterVars
    /\ UNCHANGED dataVars
    /\ UNCHANGED limiterVars

\* a direct call of decode_access_token(token)
DecodeAccessToken ==
    /\ token.form # "none"
    /\ LET d == decode_access_token(token, now)
       IN last' = [op |-> "decode_access_token", status |-> 200,
                   none |-> d.none, payload |-> d.payload]
    /\ UNCHANGED authVars
    /\ UNCHANGED limiterVars
    /\ UNCHANGED dataVars
    /\ UNCHANGED limiterVars

----------------------------------------------------------------------------
(* The environment: the clock, the store's administrator, and a client     *)
(* that tampers with the token it holds                                    *)

Tick(d) ==
    /\ ClockReading(now + d)
    /\ now' = now + d
    /\ last' = Idle
    /\ UNCHANGED <<users, companies, nextUserId, nextCompanyId, token, minted>>
    /\ UNCHANGED dataVars
    /\ UNCHANGED limiterVars

\* UPDATE users SET is_active = false
DeactivateUser(u) ==
    /\ u \in users /\ u.is_active
    /\ users' = (users \ {u}) \cup {[u EXCEPT !.is_active = FALSE]}
    /\ last' = Idle
    /\ UNCHANGED <<companies, nextUserId, nextCompanyId, now, token, minted>>
    /\ UNCHANGED dataVars
    /\ UNCHANGED limiterVars

\* UPDATE users SET is_admin = ...
SetAdmin(u, is_admin) ==
    /\ u \in users /\ u.is_admin # is_admin
    /\ users' = (users \ {u}) \cup {[u EXCEPT !.is_admin = is_admin]}
    /\ last' = Idle
    /\ UNCHANGED <<companies, nextUserId, nextCompanyId, now, token, minted>>
    /\ UNCHANGED dataVars
    /\ UNCHANGED limiterVars

\* DELETE FROM users
DeleteUser(u) ==
    /\ u \in users
    /\ users' = users \ {u}
    /\ last' = Idle
    /\ UNCHANGED <<companies, nextUserId, nextCompanyId, now, token, minted>>
    /\ UNCHANGED dataVars
    /\ UNCHANGED limiterVars

\* UPDATE users SET company_id = ..., email = ...; (email, company_id) is unique
UpdateUser(u, company_id, email) ==
    /\ u \in users
    /\ <<company_id, email>> # <<u.company_id, u.email>>
    /\ company_id \in {c.id : c \in companies}
    /\ ~\E w \in users \ {u} : w.email = email /\ w.company_id = company_id
    /\ users' = (users \ {u}) \cup
                    {[u EXCEPT !.company_id = company_id, !.email = email]}
    /\ last' = Idle
    /\ UNCHANGED <<companies, nextUserId, nextCompanyId, now, token, minted>>
    /\ UNCHANGED dataVars
    /\ UNCHANGED limiterVars

\* the client signs the claims of its token, with any exp, under another secret
SignWithOtherKey(exp) ==
    /\ token.form = "jws"
    /\ token' = jwt_encode([token.claims EXCEPT !.exp = exp], OtherKey)
    /\ last' = Idle
    /\ UNCHANGED <<users, companies, nextUserId, nextCompanyId, now, minted>>
    /\ UNCHANGED dataVars
    /\ UNCHANGED limiterVars

SigChars == 43
PadValues == 0 .. 3

\* the client replaces character `pos` of the signature segment of a token
\* as issued.  Every bit of characters 1..42 is a signature bit; of the last
\* character, `hi` says whether its 4 signature bits change, pad is its new
\* value of the 2 unused bits
CorruptSignature(pos, hi, pad) ==
    /\ token.form = "jws" /\ token.sig.intact /\ token.sig.pad = 0
    /\ pos \in 1 .. SigChars
    /\ hi \/ pad # token.sig.pad
    /\ pos < SigChars => hi /\ pad = token.sig.pad
    /\ token' = [token EXCEPT !.sig.intact = ~hi, !.sig.pad = pad]
    /\ last' = Idle
    /\ UNCHANGED <<users, companies, nextUserId, nextCompanyId, now, minted>>
    /\ UNCHANGED dataVars
    /\ UNCHANGED limiterVars

\* the client presents a string that is no three-segment token
PresentMalformed ==
    /\ token # MalformedToken
    /\ token' = MalformedToken
    /\ last' = Idle
    /\ UNCHANGED <<users, companies, nextUserId, nextCompanyId, now, minted>>
    /\ UNCHANGED dataVars
    /\ UNCHANGED limiterVars

----------------------------------------------------------------------------
(* app/core/rate_limiter.py: the in-memory sliding-window limiter.  A key   *)
(* of `requests` that was never used reads as the empty list (defaultdict). *)
(* time.time() is the clock `now`.                                          *)

Identifiers == {"u1", "u2"}
Endpoints == {"/a"}
RateKeys == Identifiers \X Endpoints
NoRequests == [key \in RateKeys |-> <<>>]

\* the values of max_requests and window_seconds the callers pass
Limits == {1, 2}
Windows == {1, 2}

\* _clean_old_requests: the timestamps of the key newer than the cutoff
clean_old_requests(key, window_seconds) ==
    SelectSeq(requests[key], LAMBDA ts : ts > now - window_seconds)

RateResponse(ok, key, max_requests, window_seconds) ==
    [op |-> "check_rate_limit", status |-> IF ok THEN 200 ELSE 429,
     ok |-> ok, key |-> key, max_requests |-> max_requests,
     window_seconds |-> window_seconds]

\* RateLimiter.check_rate_limit(identifier, endpoint, max_requests, window_seconds)
CheckRateLimit(identifier, endpoint, max_requests, window_seconds) ==
    LET key == <<identifier, endpoint>>
        kept == clean_old_requests(key, window_seconds)
        current_count == Len(kept)
    IN /\ Len(allowed) < MaxCalls
       /\ IF current_count >= max_requests
          THEN /\ requests' = [requests EXCEPT ![key] = kept]
               /\ allowed' = allowed
               /\ last' = RateResponse(FALSE, key, max_requests, window_seconds)
          ELSE /\ requests' = [requests EXCEPT ![key] = Append(kept, now)]
               /\ allowed' = Append(allowed, [key |-> key, ts |-> now])
               /\ last' = RateResponse(TRUE, key, max_requests, window_seconds)
       /\ UNCHANGED <<users, companies, nextUserId, nextCompanyId, now, token, minted>>
       /\ UNCHANGED dataVars

----------------------------------------------------------------------------
(* The authentication specification *)

Init ==
    /\ users = {} /\ companies = {} /\ campaigns = {} /\ recipients = {}
    /\ nextUserId = 1 /\ nextCompanyId = 1
    /\ nextCampaignId = 1 /\ nextRecipientId = 1
    /\ now = 0
    /\ token = NoToken
    /\ minted = Minted(0, NoDelta)
    /\ requests = NoRequests /\ allowed = <<>>
    /\ last = Idle

\* data for direct calls of create_access_token
FullData ==
    [EmptyClaims EXCEPT !.keys = {"sub", "company_id", "email"},
                        !.sub = StrV(1), !.company_id = StrV(1),
                        !.email = "a@x.io"]
NoSubData == [EmptyClaims EXCEPT !.keys = {"company_id"}, !.company_id = StrV(1)]

Deltas == {NoDelta, Delta(0), Delta(1)}

(* Registration and login *)

RegisterPasswords == {StrongPw, ShortPw, NoDigitPw, NoUpperPw, NoLowerPw}

Next ==
    \/ \E e \in Emails, n \in CompanyNames, el \in Elapsed :
          Register(e, StrongPw, n, 1, el)
    \/ \E e \in Emails, p \in RegisterPasswords \ {StrongPw} :
          Register(e, p, <<"A", "c">>, 1, 0)
    \/ \E e \in Emails, p \in {StrongPw, OtherStrongPw}, el \in Elapsed :
          Login(e, p, el)
    \/ \E d \in {1, DefaultTtl} : Tick(d)
    \/ \E u \in users : DeactivateUser(u)

Spec == Init /\ [][Next]_vars

(* Identity resolution, from a store that two registrations have filled *)

RegisteredUser(id, email) ==
    [id |-> id, email |-> email, hashed_password |-> hash_password(StrongPw, 1),
     company_id |-> id, is_active |-> TRUE, is_admin |-> FALSE]

InitResolve ==
    /\ users = {RegisteredUser(1, "a@x.io"), RegisteredUser(2, "b@x.io")}
    /\ companies = {[id |-> 1, name |-> <<"A", "c">>, slug |-> <<"a", "c">>],
                    [id |-> 2, name |-> <<"b", " ">>, slug |-> <<"b", "-">>]}
    /\ campaigns = {} /\ recipients = {}
    /\ nextUserId = 3 /\ nextCompanyId = 3
    /\ nextCampaignId = 1 /\ nextRecipientId = 1
    /\ now = 0
    /\ token = NoToken
    /\ minted = Minted(0, NoDelta)
    /\ requests = NoRequests /\ allowed = <<>>
    /\ last = Idle

NextResolve ==
    \/ \E e \in Emails : Login(e, StrongPw, 0)
    \/ \E u \in users : CreateUserToken(u.id, u.company_id, u.email, 0)
    \/ CreateAccessToken(NoSubData, NoDelta, 0)
    \/ GetCurrentUser
    \/ GetCurrentUserOptional
    \/ \E d \in {1, DefaultTtl} : Tick(d)
    \/ \E u \in users : DeactivateUser(u)
    \/ \E u \in users : DeleteUser(u)
    \/ \E u \in users, c \in {1, 2}, e \in Emails : UpdateUser(u, c, e)
    \/ SignWithOtherKey(token.claims.exp)
    \/ PresentMalformed

SpecResolve == InitResolve /\ [][NextResolve]_vars

(* The admin guard: the identity is the one the token resolved to when    *)
(* the request's get_current_user dependency ran                           *)

TokenIdentity ==
    LET user_info == extract_user_from_token(token, now)
    IN CurrentUser(user_info.info.user_id, user_info.info.company_id,
                   user_info.info.email)

NextAdmin ==
    \/ \E e \in Emails : Login(e, StrongPw, 0)
    \/ \E u \in users, b \in BOOLEAN : SetAdmin(u, b)
    \/ \E u \in users : DeleteUser(u)
    \/ \E u \in users : DeactivateUser(u)
    \/ GetCurrentUser
    \/ extract_user_from_token(token, now).kind = "ok" /\ RequireAdmin(TokenIdentity)

SpecAdmin == InitResolve /\ [][NextAdmin]_vars

(* Password hashing *)

HashPasswords == {StrongPw, OtherStrongPw, NulPw}

NextHash ==
    \/ \E p \in HashPasswords : HashPassword(p)
    \/ \E p \in HashPasswords, i \in 1 .. MaxHashes : VerifyPassword(p, i)

SpecHash == Init /\ [][NextHash]_vars

(* The token codec *)

NextCodec ==
    \/ \E uid \in 1 .. 2, e \in Elapsed : CreateUserToken(uid, uid, "a@x.io", e)
    \/ \E data \in {FullData, NoSubData}, delta \in Deltas, e \in Elapsed :
          CreateAccessToken(data, delta, e)
    \/ DecodeAccessToken
    \/ \E d \in {1, DefaultTtl} : Tick(d)
    \/ \E exp \in {0, Horizon + 1} : SignWithOtherKey(exp)
    \/ \E pos \in {1, SigChars}, hi \in BOOLEAN, pad \in PadValues :
          CorruptSignature(pos, hi, pad)
    \/ PresentMalformed

SpecCodec == Init /\ [][NextCodec]_vars

----------------------------------------------------------------------------
(* app/models/campaign.py, app/modules/campaigns: campaigns of a tenant.   *)
(* A campaign row keeps the columns the services read or write; the text   *)
(* columns other than name, and created_at / completed_at, are left out.   *)
(* updated_at is written by the services that set it and by the column's   *)
(* onupdate default whenever a row is updated.                              *)

Statuses == {"draft", "scheduled", "sending", "completed", "failed", "cancelled"}
NoStatus == "<None>"
NoTime == -1

\* is_editable accepting every status
is_editable_any_status(c) == c.status \in Statuses

is_editable(c) == c.status \in {"draft", "scheduled"}

\* is_sendable without the test of the status
is_sendable_any_status(c) == c.total_recipients > 0

\* is_sendable without the test of total_recipients
is_sendable_without_recipients(c) == c.status = "draft"

is_sendable(c) == c.status = "draft" /\ c.total_recipients > 0

\* get_campaign_by_id with the tenant filter left out
get_campaign_by_id_unscoped(current_user, campaign_id) ==
    {c \in campaigns : c.id = campaign_id}

\* get_campaign_by_id: .first() of the query, as a set of at most one row
get_campaign_by_id(current_user, campaign_id) ==
    {c \in campaigns : c.id = campaign_id /\ c.company_id = current_user.company_id}

\* list_campaigns (the rows; their order by created_at is not modelled)
list_campaigns(current_user, status) ==
    {c \in campaigns : /\ c.company_id = current_user.company_id
                        /\ (status = NoStatus \/ c.status = status)}

DataResponse(op, status, current_user, campaign_id, result) ==
    [op |-> op, status |-> status, cu |-> current_user,
     campaign_id |-> campaign_id, result |-> result]

ReplaceCampaign(old, new) == (campaigns \ {old}) \cup {new}
RecipientsOf(campaign_id) == {r \in recipients : r.campaign_id = campaign_id}

\* POST /campaigns
CreateCampaign(current_user, name, scheduled_at) ==
    /\ nextCampaignId <= MaxCampaigns
    /\ scheduled_at = NoTime \/ scheduled_at >= now
    /\ LET row == [id |-> nextCampaignId, name |-> name,
                   company_id |-> current_user.company_id,
                   created_by |-> current_user.user_id,
                   status |-> IF scheduled_at # NoTime THEN "scheduled" ELSE "draft",
                   scheduled_at |-> scheduled_at, started_at |-> NoTime,
                   total_recipients |-> 0, sent_count |-> 0,
                   delivered_count |-> 0, failed_count |-> 0,
                   updated_at |-> now]
           fk_ok == /\ \E c \in companies : c.id = current_user.company_id
                    /\ \E u \in users : u.id = current_user.user_id
       IN IF fk_ok
          THEN /\ campaigns' = campaigns \cup {row}
               /\ last' = DataResponse("create_campaign", 201, current_user,
                                        nextCampaignId, {row})
          ELSE /\ campaigns' = campaigns
               /\ last' = DataResponse("create_campaign", 400, current_user, 0, {})
    /\ nextCampaignId' = nextCampaignId + 1
    /\ UNCHANGED <<recipients, nextRecipientId>>
    /\ UNCHANGED authVars
    /\ UNCHANGED limiterVars

\* POST /campaigns when db.commit() raises `exc`: an IntegrityError is
\* caught and turned into a 400, any other error leaves the endpoint
CreateCampaignStoreFailure(current_user, environment, exc) ==
    /\ last' = FailureReply("create_campaign_store_failure", environment, exc,
                  IF exc.type = "IntegrityError"
                  THEN [status |-> 400,
                        detail |-> Detail("Failed to create campaign: ", exc.text)]
                  ELSE exception_handler(environment, exc))
    /\ UNCHANGED dataVars
    /\ UNCHANGED authVars
    /\ UNCHANGED limiterVars

\* GET /campaigns
ListCampaigns(current_user, status) ==
    /\ last' = DataResponse("list_campaigns", 200, current_user, 0,
                            list_campaigns(current_user, status))
    /\ UNCHANGED dataVars
    /\ UNCHANGED authVars
    /\ UNCHANGED limiterVars

\* GET /campaigns/{campaign_id}
GetCampaign(current_user, campaign_id) ==
    /\ LET found == get_campaign_by_id(current_user, campaign_id)
       IN last' = DataResponse("get_campaign", IF found = {} THEN 404 ELSE 200,
                               current_user, campaign_id, found)
    /\ UNCHANGED dataVars
    /\ UNCHANGED authVars
    /\ UNCHANGED limiterVars

\* CampaignUpdate.model_dump(exclude_unset=True): the keys set, and their values
NoUpdate == [keys |-> {}, name |-> "", scheduled_at |-> NoTime, status |-> NoStatus]

\* the setattr loop over model_dump(exclude_unset=True), then updated_at
ApplyUpdate(c, data) ==
    [c EXCEPT !.name = IF "name" \in data.keys THEN data.name ELSE @,
              !.scheduled_at = IF "scheduled_at" \in data.keys
                               THEN data.scheduled_at ELSE @,
              !.status = IF "status" \in data.keys THEN data.status ELSE @,
              !.updated_at = now]

\* the reply to PATCH /campaigns/{campaign_id}, with the request body
UpdateResponse(status, current_user, campaign_id, result, data) ==
    [op |-> "update_campaign", status |-> status, cu |-> current_user,
     campaign_id |-> campaign_id, result |-> result, data |-> data]

\* PATCH /campaigns/{campaign_id}
UpdateCampaign(current_user, campaign_id, data) ==
    /\ "scheduled_at" \in data.keys => data.scheduled_at >= now
    /\ LET found == get_campaign_by_id(current_user, campaign_id)
       IN IF found = {}
          THEN /\ last' = UpdateResponse(404, current_user, campaign_id, {}, data)
               /\ UNCHANGED campaigns
          ELSE LET db_campaign == CHOOSE c \in found : TRUE
               IN IF ~is_editable(db_campaign)
                  THEN /\ last' = UpdateResponse(400, current_user, campaign_id, {},
                                                  data)
                       /\ UNCHANGED campaigns
                  ELSE /\ campaigns' = ReplaceCampaign(db_campaign,
                                            ApplyUpdate(db_campaign, data))
                       /\ last' = UpdateResponse(200, current_user, campaign_id,
                                                  {ApplyUpdate(db_campaign, data)},
                                                  data)
    /\ UNCHANGED <<recipients, nextCampaignId, nextRecipientId>>
    /\ UNCHANGED authVars
    /\ UNCHANGED limiterVars

\* delete_campaign without the test of the status
DeleteCampaign_any_status(current_user, campaign_id) ==
    /\ LET found == get_campaign_by_id(current_user, campaign_id)
       IN IF found = {}
          THEN /\ last' = DataResponse("delete_campaign", 404, current_user,
                                        campaign_id, {})
               /\ UNCHANGED <<campaigns, recipients>>
          ELSE LET db_campaign == CHOOSE c \in found : TRUE
               IN IF FALSE
                  THEN /\ last' = DataResponse("delete_campaign", 400, current_user,
                                                campaign_id, {})
                       /\ UNCHANGED <<campaigns, recipients>>
                  ELSE /\ campaigns' = campaigns \ {db_campaign}
                       /\ recipients' = recipients \ RecipientsOf(db_campaign.id)
                       /\ last' = DataResponse("delete_campaign", 204, current_user,
                                                campaign_id, {})
    /\ UNCHANGED <<nextCampaignId, nextRecipientId>>
    /\ UNCHANGED authVars
    /\ UNCHANGED limiterVars

\* DELETE /campaigns/{campaign_id}; the recipients relationship cascades
DeleteCampaign(current_user, campaign_id) ==
    /\ LET found == get_campaign_by_id(current_user, campaign_id)
       IN IF found = {}
          THEN /\ last' = DataResponse("delete_campaign", 404, current_user,
                                        campaign_id, {})
               /\ UNCHANGED <<campaigns, recipients>>
          ELSE LET db_campaign == CHOOSE c \in found : TRUE
               IN IF db_campaign.status \in {"sending"}
                  THEN /\ last' = DataResponse("delete_campaign", 400, current_user,
                                                campaign_id, {})
                       /\ UNCHANGED <<campaigns, recipients>>
                  ELSE /\ campaigns' = campaigns \ {db_campaign}
                       /\ recipients' = recipients \ RecipientsOf(db_campaign.id)
                       /\ last' = DataResponse("delete_campaign", 204, current_user,
                                                campaign_id, {})
    /\ UNCHANGED <<nextCampaignId, nextRecipientId>>
    /\ UNCHANGED authVars
    /\ UNCHANGED limiterVars

\* POST /campaigns/{campaign_id}/send
SendCampaign(current_user, campaign_id) ==
    /\ LET found == get_campaign_by_id(current_user, campaign_id)
       IN IF found = {}
          THEN /\ last' = DataResponse("send_campaign", 404, current_user,
                                        campaign_id, {})
               /\ UNCHANGED campaigns
          ELSE LET db_campaign == CHOOSE c \in found : TRUE
                   sent == [db_campaign EXCEPT !.status = "sending",
                                               !.started_at = now,
                                               !.updated_at = now]
               IN IF ~is_sendable(db_campaign)
                  THEN /\ last' = DataResponse("send_campaign", 400, current_user,
                                                campaign_id, {})
                       /\ UNCHANGED campaigns
                  ELSE /\ campaigns' = ReplaceCampaign(db_campaign, sent)
                       /\ last' = DataResponse("send_campaign", 200, current_user,
                                                campaign_id, {sent})
    /\ UNCHANGED <<recipients, nextCampaignId, nextRecipientId>>
    /\ UNCHANGED authVars
    /\ UNCHANGED limiterVars

\* cancel_campaign without the test of the status
CancelCampaign_any_status(current_user, campaign_id) ==
    /\ LET found == get_campaign_by_id(current_user, campaign_id)
       IN IF found = {}
          THEN /\ last' = DataResponse("cancel_campaign", 404, current_user,
                                        campaign_id, {})
               /\ UNCHANGED campaigns
          ELSE LET db_campaign == CHOOSE c \in found : TRUE
                   cancelled == [db_campaign EXCEPT !.status = "cancelled",
                                                    !.updated_at = now]
               IN IF FALSE
                  THEN /\ last' = DataResponse("cancel_campaign", 400, current_user,
                                                campaign_id, {})
                       /\ UNCHANGED campaigns
                  ELSE /\ campaigns' = ReplaceCampaign(db_campaign, cancelled)
                       /\ last' = DataResponse("cancel_campaign", 200, current_user,
                                                campaign_id, {cancelled})
    /\ UNCHANGED <<recipients, nextCampaignId, nextRecipientId>>
    /\ UNCHANGED authVars
    /\ UNCHANGED limiterVars

\* POST /campaigns/{campaign_id}/cancel
CancelCampaign(current_user, campaign_id) ==
    /\ LET found == get_campaign_by_id(current_user, campaign_id)
       IN IF found = {}
          THEN /\ last' = DataResponse("cancel_campaign", 404, current_user,
                                        campaign_id, {})
               /\ UNCHANGED campaigns
          ELSE LET db_campaign == CHOOSE c \in found : TRUE
                   cancelled == [db_campaign EXCEPT !.status = "cancelled",
                                                    !.updated_at = now]
               IN IF db_campaign.status \in {"completed", "cancelled"}
                  THEN /\ last' = DataResponse("cancel_campaign", 400, current_user,
                                                campaign_id, {})
                       /\ UNCHANGED campaigns
                  ELSE /\ campaigns' = ReplaceCampaign(db_campaign, cancelled)
                       /\ last' = DataResponse("cancel_campaign", 200, current_user,
                                                campaign_id, {cancelled})
    /\ UNCHANGED <<recipients, nextCampaignId, nextRecipientId>>
    /\ UNCHANGED authVars
    /\ UNCHANGED limiterVars

----------------------------------------------------------------------------
(* app/models/recipient.py, app/modules/recipients: recipients of a        *)
(* campaign.  A recipient row keeps id, campaign_id and phone_number.  The *)
(* session is made with autoflush=False (app/database.py): a query does    *)
(* not see the rows added or deleted earlier in the same request.          *)

\* get_campaign_or_404 with the tenant filter left out
get_campaign_or_404_unscoped(current_user, campaign_id) ==
    {c \in campaigns : c.id = campaign_id}

\* get_campaign_or_404: the row, or the empty set where it raises 404
get_campaign_or_404(current_user, campaign_id) ==
    {c \in campaigns : c.id = campaign_id /\ c.company_id = current_user.company_id}

NoCounts == [added |-> 0, duplicate |-> 0, error |-> 0, total |-> 0]
RecipientResponse(op, status, current_user, campaign_id, result, counts) ==
    [op |-> op, status |-> status, cu |-> current_user,
     campaign_id |-> campaign_id, result |-> result, counts |-> counts]

NotFound(op, current_user, campaign_id) ==
    RecipientResponse(op, 404, current_user, campaign_id, {}, NoCounts)

Existing(campaign_id, phone_number) ==
    {r \in recipients : r.campaign_id = campaign_id /\ r.phone_number = phone_number}

CountOf(campaign_id) == Cardinality(RecipientsOf(campaign_id))

\* the campaign left with the total it had
SetTotal_not_written(campaign, n) == campaigns

SetTotal(campaign, n) ==
    ReplaceCampaign(campaign,
                    [campaign EXCEPT !.total_recipients = n,
                                     !.updated_at = IF n = campaign.total_recipients
                                                    THEN @ ELSE now])

\* the rows a request inserts for the phone numbers it added, in order
NewRows(campaign_id, phones) ==
    {[id |-> nextRecipientId + i - 1, campaign_id |-> campaign_id,
      phone_number |-> phones[i]] : i \in 1 .. Len(phones)}

HasDuplicate(phones) ==
    \E i, j \in 1 .. Len(phones) : i < j /\ phones[i] = phones[j]

\* POST /campaigns/{campaign_id}/recipients
AddRecipient(current_user, campaign_id, phone_number) ==
    /\ LET found == get_campaign_or_404(current_user, campaign_id)
       IN IF found = {}
          THEN /\ last' = NotFound("add_single_recipient", current_user, campaign_id)
               /\ UNCHANGED <<campaigns, recipients, nextRecipientId>>
          ELSE IF Existing(campaign_id, phone_number) # {}
          THEN /\ last' = RecipientResponse("add_single_recipient", 400, current_user,
                                             campaign_id, {}, NoCounts)
               /\ UNCHANGED <<campaigns, recipients, nextRecipientId>>
          ELSE LET campaign == CHOOSE c \in found : TRUE
                   new == NewRows(campaign_id, <<phone_number>>)
               IN /\ nextRecipientId <= MaxRecipients
                  /\ recipients' = recipients \cup new
                  /\ campaigns' = SetTotal(campaign, CountOf(campaign_id) + 1)
                  /\ nextRecipientId' = nextRecipientId + 1
                  /\ last' = RecipientResponse("add_single_recipient", 201,
                                                current_user, campaign_id, new, NoCounts)
    /\ UNCHANGED nextCampaignId
    /\ UNCHANGED authVars
    /\ UNCHANGED limiterVars

\* the reply of an upload that read the rows `phones` of its request
UploadResponse(op, status, current_user, campaign_id, result, counts, phones) ==
    [op |-> op, status |-> status, cu |-> current_user,
     campaign_id |-> campaign_id, result |-> result, counts |-> counts,
     rows |-> phones]

IsNew(campaign_id, phone_number) ==
    phone_number # "" /\ Existing(campaign_id, phone_number) = {}

\* the loop of add_bulk_recipients and upload_recipients_csv, and the commit:
\* `phones` are the rows of the request, "" a CSV row without phone_number
Upload(op, current_user, campaign, phones) ==
    LET campaign_id == campaign.id
        added == SelectSeq(phones, LAMBDA ph : IsNew(campaign_id, ph))
        blank == SelectSeq(phones, LAMBDA ph : ph = "")
        counts == [added |-> Len(added),
                   duplicate |-> Len(phones) - Len(added) - Len(blank),
                   error |-> Len(blank), total |-> 0]
    IN /\ nextRecipientId + Len(added) - 1 <= MaxRecipients
       /\ nextRecipientId' = nextRecipientId + Len(added)
       /\ IF HasDuplicate(added)
          THEN \* IntegrityError on uq_recipient_campaign_phone at commit
               /\ last' = UploadResponse(op, 500, current_user, campaign_id,
                                         {}, NoCounts, phones)
               /\ UNCHANGED <<campaigns, recipients>>
          ELSE /\ recipients' = recipients \cup NewRows(campaign_id, added)
               /\ campaigns' = SetTotal(campaign, CountOf(campaign_id))
               /\ last' = UploadResponse(op, 200, current_user, campaign_id,
                                         NewRows(campaign_id, added), counts, phones)

\* POST /campaigns/{campaign_id}/recipients/bulk; RecipientBulkCreate rejects
\* a list with a repeated phone number
AddRecipientsBulk(current_user, campaign_id, phones) ==
    /\ Len(phones) >= 1 /\ ~HasDuplicate(phones)
    /\ \A i \in 1 .. Len(phones) : phones[i] # ""
    /\ LET found == get_campaign_or_404(current_user, campaign_id)
       IN IF found = {}
          THEN /\ last' = NotFound("add_bulk_recipients", current_user, campaign_id)
               /\ UNCHANGED <<campaigns, recipients, nextRecipientId>>
          ELSE Upload("add_bulk_recipients", current_user,
                      CHOOSE c \in found : TRUE, phones)
    /\ UNCHANGED nextCampaignId
    /\ UNCHANGED authVars
    /\ UNCHANGED limiterVars

\* POST /campaigns/{campaign_id}/recipients/upload: is_csv is whether the
\* file name ends in .csv, has_column whether the header has phone_number
UploadRecipientsCsv(current_user, campaign_id, is_csv, has_column, phones) ==
    /\ LET found == get_campaign_or_404(current_user, campaign_id)
       IN IF found = {}
          THEN /\ last' = NotFound("upload_recipients_csv", current_user, campaign_id)
               /\ UNCHANGED <<campaigns, recipients, nextRecipientId>>
          ELSE IF ~is_csv \/ ~has_column
          THEN /\ last' = RecipientResponse("upload_recipients_csv", 400,
                                             current_user, campaign_id, {}, NoCounts)
               /\ UNCHANGED <<campaigns, recipients, nextRecipientId>>
          ELSE Upload("upload_recipients_csv", current_user,
                      CHOOSE c \in found : TRUE, phones)
    /\ UNCHANGED nextCampaignId
    /\ UNCHANGED authVars
    /\ UNCHANGED limiterVars

Min(a, b) == IF a < b THEN a ELSE b
Max(a, b) == IF a < b THEN b ELSE a

\* GET /campaigns/{campaign_id}/recipients: the query has no ORDER BY, the
\* page is any `limit` rows after `skip`
ListRecipients(current_user, campaign_id, skip, limit) ==
    /\ LET found == get_campaign_or_404(current_user, campaign_id)
           total == CountOf(campaign_id)
       IN IF found = {}
          THEN last' = NotFound("list_recipients", current_user, campaign_id)
          ELSE \E page \in SUBSET RecipientsOf(campaign_id) :
                  /\ Cardinality(page) = Min(limit, Max(0, total - skip))
                  /\ last' = RecipientResponse("list_recipients", 200, current_user,
                                 campaign_id, page, [NoCounts EXCEPT !.total = total])
    /\ UNCHANGED dataVars
    /\ UNCHANGED authVars
    /\ UNCHANGED limiterVars

get_recipient_by_id(found, campaign_id, recipient_id) ==
    IF found = {} THEN {}
    ELSE {r \in recipients : r.id = recipient_id /\ r.campaign_id = campaign_id}

\* GET /campaigns/{campaign_id}/recipients/{recipient_id}
GetRecipient(current_user, campaign_id, recipient_id) ==
    /\ LET found == get_campaign_or_404(current_user, campaign_id)
           recipient == get_recipient_by_id(found, campaign_id, recipient_id)
       IN last' = RecipientResponse("get_recipient_by_id",
                                    IF recipient = {} THEN 404 ELSE 200,
                                    current_user, campaign_id, recipient, NoCounts)
    /\ UNCHANGED dataVars
    /\ UNCHANGED authVars
    /\ UNCHANGED limiterVars

\* DELETE /campaigns/{campaign_id}/recipients/{recipient_id}
DeleteRecipient(current_user, campaign_id, recipient_id) ==
    /\ LET found == get_campaign_or_404(current_user, campaign_id)
           recipient == get_recipient_by_id(found, campaign_id, recipient_id)
           campaign == {c \in campaigns : c.id = campaign_id}
       IN IF recipient = {}
          THEN /\ last' = NotFound("delete_recipient", current_user, campaign_id)
               /\ UNCHANGED <<campaigns, recipients>>
          ELSE /\ recipients' = recipients \ recipient
               /\ campaigns' = IF campaign = {} THEN campaigns
                                ELSE SetTotal(CHOOSE c \in campaign : TRUE,
                                              CountOf(campaign_id) - 1)
               /\ last' = RecipientResponse("delete_recipient", 200, current_user,
                                            campaign_id, {}, NoCounts)
    /\ UNCHANGED <<nextCampaignId, nextRecipientId>>
    /\ UNCHANGED authVars
    /\ UNCHANGED limiterVars

\* DELETE /campaigns/{campaign_id}/recipients
DeleteAllRecipients(current_user, campaign_id) ==
    /\ LET found == get_campaign_or_404(current_user, campaign_id)
       IN IF found = {}
          THEN /\ last' = NotFound("delete_all_recipients", current_user, campaign_id)
               /\ UNCHANGED <<campaigns, recipients>>
          ELSE /\ recipients' = recipients \ RecipientsOf(campaign_id)
               /\ campaigns' = SetTotal(CHOOSE c \in found : TRUE, 0)
               /\ last' = RecipientResponse("delete_all_recipients", 200,
                              current_user, campaign_id, {},
                              [NoCounts EXCEPT !.total = CountOf(campaign_id)])
    /\ UNCHANGED <<nextCampaignId, nextRecipientId>>
    /\ UNCHANGED authVars
    /\ UNCHANGED limiterVars

(* Campaigns and recipients of two tenants *)

\* the identity get_current_user resolves from the token /login gives user u
LoginIdentity(u) ==
    get_current_user(create_access_token(endpoint_token_data(u), NoDelta, now, now),
                     now).identity

Identities == {LoginIdentity(u) : u \in users}

CampaignIds == 1 .. MaxCampaigns
RecipientIds == 1 .. MaxRecipients
Phones == {"+1", "+2"}
PhoneLists == {<<"+1">>, <<"+1", "+2">>}
CsvRows == {<<"+1", "+1">>, <<"", "+2">>}
Updates == {[NoUpdate EXCEPT !.keys = {"name"}, !.name = "n2"]}

NextTenant ==
    \/ \E cu \in Identities : CreateCampaign(cu, "n1", NoTime)
    \/ \E cu \in Identities : ListCampaigns(cu, NoStatus)
    \/ \E cu \in Identities, id \in CampaignIds : GetCampaign(cu, id)
    \/ \E cu \in Identities, id \in CampaignIds, data \in Updates : UpdateCampaign(cu, id, data)
    \/ \E cu \in Identities, id \in CampaignIds : DeleteCampaign(cu, id)
    \/ \E cu \in Identities, id \in CampaignIds : SendCampaign(cu, id)
    \/ \E cu \in Identities, id \in CampaignIds : CancelCampaign(cu, id)
    \/ \E cu \in Identities : AddRecipient(cu, 1, "+1")

SpecTenant == InitResolve /\ [][NextTenant]_vars

\* one draft campaign of each company
DraftCampaign(u) ==
    [id |-> u.id, name |-> "n1", company_id |-> u.company_id, created_by |-> u.id,
     status |-> "draft", scheduled_at |-> NoTime, started_at |-> NoTime,
     total_recipients |-> 0, sent_count |-> 0, delivered_count |-> 0,
     failed_count |-> 0, updated_at |-> 0]

InitRecipients ==
    /\ users = {RegisteredUser(1, "a@x.io"), RegisteredUser(2, "b@x.io")}
    /\ companies = {[id |-> 1, name |-> <<"A", "c">>, slug |-> <<"a", "c">>],
                    [id |-> 2, name |-> <<"b", " ">>, slug |-> <<"b", "-">>]}
    /\ campaigns = {DraftCampaign(u) : u \in users}
    /\ recipients = {}
    /\ nextUserId = 3 /\ nextCompanyId = 3
    /\ nextCampaignId = 3 /\ nextRecipientId = 1
    /\ now = 0
    /\ token = NoToken
    /\ minted = Minted(0, NoDelta)
    /\ requests = NoRequests /\ allowed = <<>>
    /\ last = Idle

NextRecipients ==
    \/ \E cu \in Identities, id \in CampaignIds, ph \in Phones : AddRecipient(cu, id, ph)
    \/ \E cu \in Identities, id \in CampaignIds, phs \in PhoneLists : AddRecipientsBulk(cu, id, phs)
    \/ \E cu \in Identities, id \in CampaignIds, is_csv, has_column \in BOOLEAN, rows \in CsvRows :
          UploadRecipientsCsv(cu, id, is_csv, has_column, rows)
    \/ \E cu \in Identities, id \in CampaignIds, skip \in {0, 1} : ListRecipients(cu, id, skip, 1)
    \/ \E cu \in Identities, id \in CampaignIds, rid \in RecipientIds : GetRecipient(cu, id, rid)
    \/ \E cu \in Identities, id \in CampaignIds, rid \in RecipientIds : DeleteRecipient(cu, id, rid)
    \/ \E cu \in Identities, id \in CampaignIds : DeleteAllRecipients(cu, id)

SpecRecipients == InitRecipients /\ [][NextRecipients]_vars

(* The life of a campaign: created as a draft or scheduled, edited, given *)
(* recipients, sent and cancelled while the clock advances                 *)

LifecycleUpdates ==
    {NoUpdate,
     [NoUpdate EXCEPT !.keys = {"name"}, !.name = "n2"],
     [NoUpdate EXCEPT !.keys = {"scheduled_at"}, !.scheduled_at = 1]}
    \cup {[NoUpdate EXCEPT !.keys = {"status"}, !.status = s] : s \in Statuses}

\* the caller: the first user, after login
LifecycleCaller == LoginIdentity(CHOOSE u \in users : u.id = 1)

NextLifecycle ==
    \/ \E st \in {NoTime, 1} : CreateCampaign(LifecycleCaller, "n1", st)
    \/ \E data \in LifecycleUpdates : UpdateCampaign(LifecycleCaller, 1, data)
    \/ SendCampaign(LifecycleCaller, 1)
    \/ CancelCampaign(LifecycleCaller, 1)
    \/ \E cu \in Identities : DeleteCampaign(cu, 1)
    \/ AddRecipient(LifecycleCaller, 1, "+1")
    \/ Tick(1)

SpecLifecycle == InitResolve /\ [][NextLifecycle]_vars

(* Calls of the rate limiter while the clock advances *)

NextRate ==
    \/ \E identifier \in Identifiers, endpoint \in Endpoints,
          max_requests \in Limits, window_seconds \in Windows :
          CheckRateLimit(identifier, endpoint, max_requests, window_seconds)
    \/ Tick(1)

SpecRate == Init /\ [][NextRate]_vars

(* Requests that meet a failure of a lower layer *)

NextFailure ==
    \/ \E e \in Emails, p \in {StrongPw, NulPw}, n \in CompanyNames :
          Register(e, p, n, 1, 0)
    \/ CreateAccessToken(NoSubData, NoDelta, 0)
    \/ \E e \in Emails, env \in Environments : LoginRaises(e, NulPw, env)
    \/ \E e \in Emails, n \in CompanyNames, point \in {"query", "flush", "commit"},
          env \in Environments :
          RegisterStoreFailure(e, StrongPw, n, point, env, OperationalError)
    \/ \E env \in Environments : GetCurrentUserRaises(env)
    \/ \E u \in users, env \in Environments,
          exc \in {OperationalError, IntegrityError} :
          CreateCampaignStoreFailure(CurrentUser(u.id, u.company_id, NoEmail), env, exc)

SpecFailure == Init /\ [][NextFailure]_vars

----------------------------------------------------------------------------
(* Properties of tenant isolation (SpecTenant, SpecRecipients) *)

\* the campaign a response is about belongs to another company than the caller's
Foreign(r) ==
    \E c \in campaigns : c.id = r.campaign_id /\ c.company_id # r.cu.company_id

CampaignByIdOps ==
    {"get_campaign", "update_campaign", "delete_campaign", "send_campaign",
     "cancel_campaign"}

RecipientOps ==
    {"add_single_recipient", "add_bulk_recipients", "upload_recipients_csv",
     "list_recipients", "get_recipient_by_id", "delete_recipient",
     "delete_all_recipients"}

C1_Step ==
    LET r == last'
    IN /\ (r.op = "create_campaign" /\ r.status = 201) =>
             /\ campaigns' \ campaigns = r.result
             /\ campaigns \subseteq campaigns'
             /\ \A c \in r.result : c.company_id = r.cu.company_id
       /\ r.op = "list_campaigns" =>
             /\ \A c \in r.result : c.company_id = r.cu.company_id
             /\ campaigns' = campaigns
       /\ (r.op \in CampaignByIdOps /\ Foreign(r)) =>
             /\ r.status = 404 /\ r.result = {}
             /\ campaigns' = campaigns /\ recipients' = recipients
       /\ r.op \in CampaignByIdOps =>
             \A c \in campaigns : c.company_id # r.cu.company_id => c \in campaigns'

\* C1: create_campaign stores the caller's company_id on the new campaign,
\* list_campaigns returns only campaigns of the caller's company, and get,
\* update, delete, send and cancel on a campaign id owned by another company
\* answer 404 and leave every campaign (and its recipients) unchanged.
C1_CampaignTenantIsolation == [][C1_Step]_vars

\* a by-id operation was refused on an existing campaign of the other
\* company, while the caller's company has a campaign of its own
C1_Witness ==
    /\ last.op \in CampaignByIdOps /\ last.status = 404
    /\ \E c \in campaigns : c.id = last.campaign_id
                              /\ c.company_id # last.cu.company_id
    /\ \E c \in campaigns : c.company_id = last.cu.company_id

C2_Step ==
    LET r == last'
    IN (r.op \in RecipientOps /\ Foreign(r)) =>
          /\ r.status = 404 /\ r.result = {} /\ r.counts = NoCounts
          /\ recipients' = recipients /\ campaigns' = campaigns
          /\ nextRecipientId' = nextRecipientId

\* C2: every recipient operation called with the id of a campaign of another
\* company answers 404, returns no recipient and no count, and leaves every
\* recipient and every campaign (total_recipients included) unchanged.
C2_RecipientTenantIsolation == [][C2_Step]_vars

\* a recipient operation was refused on a campaign of the other company
\* that holds recipients
C2_Witness ==
    /\ last.op \in RecipientOps /\ last.status = 404
    /\ \E c \in campaigns : c.id = last.campaign_id
                              /\ c.company_id # last.cu.company_id
    /\ RecipientsOf(last.campaign_id) # {}

----------------------------------------------------------------------------
(* Properties of identity resolution (SpecResolve) *)

\* the token codec verifies the held token now
Verified == ~decode_access_token(token, now).none

\* the held token names a subject and a tenant
HasSubject ==
    /\ {"sub", "company_id"} \subseteq token.claims.keys
    /\ token.claims.sub.t = "str"
    /\ token.claims.company_id.t \in {"str", "int"}

SubjectRows == UserRows(token.claims.sub.v)

Resolved == last.op = "get_current_user"

\* C3: a request with a token that verifies, whose subject has no row in the
\* users table, is answered 404 and yields no identity.
C3_DeletedUserNotFound ==
    (Resolved /\ Verified /\ HasSubject /\ SubjectRows = {})
        => (last.status = 404 /\ last.identity = NoIdentity)

C3_Witness ==
    /\ Resolved /\ Verified /\ HasSubject /\ SubjectRows = {}
    /\ last.status = 404
    /\ users # {}

\* C4: every request ends in one of the outcomes 200, 401, 403, 404 (or 500
\* for claims int() rejects); a token the codec does not verify is answered
\* 401 with no store lookup, whatever the row of the user it names; 404, 403
\* and 200 are given only for a verified token and after one lookup, 404 when
\* the row is missing, 403 when it is inactive, 200 when it is active.
C4_CheckOrder ==
    Resolved =>
        /\ last.status \in {200, 401, 403, 404, 500}
        /\ ~Verified => (last.status = 401 /\ last.lookups = 0)
        /\ last.status \in {200, 403, 404} => (Verified /\ last.lookups = 1)
        /\ last.status = 404 => SubjectRows = {}
        /\ last.status = 403 => \E u \in SubjectRows : ~u.is_active
        /\ last.status = 200 => \E u \in SubjectRows : u.is_active
        /\ last.status # 200 => last.identity = NoIdentity

\* an expired token naming a deleted user is answered 401
C4_Witness ==
    /\ Resolved /\ last.status = 401 /\ last.lookups = 0
    /\ token.form = "jws" /\ token.sig.key = SECRET_KEY /\ token.claims.exp < now
    /\ HasSubject /\ SubjectRows = {}

\* C5: a request with a verified token whose subject's row has
\* is_active = false is answered 403 and yields no identity, also while the
\* token is unexpired.
C5_InactiveForbidden ==
    (Resolved /\ Verified /\ HasSubject /\ \E u \in SubjectRows : ~u.is_active)
        => (last.status = 403 /\ last.identity = NoIdentity)

C5_Witness ==
    /\ Resolved /\ Verified /\ HasSubject
    /\ \E u \in SubjectRows : ~u.is_active
    /\ last.status = 403
    /\ now < token.claims.exp

\* C6: the identity of a successful request is the token's sub, company_id
\* and email claims (None when the email claim is absent), whatever the
\* store's row holds now.
C6_IdentityFromClaims ==
    (Resolved /\ last.status = 200) =>
        /\ last.identity.user_id = token.claims.sub.v
        /\ last.identity.company_id = token.claims.company_id.v
        /\ last.identity.email = GetEmail(token.claims)

\* the row's company_id and email were changed after the token was minted
C6_Witness ==
    /\ Resolved /\ last.status = 200
    /\ "email" \in token.claims.keys
    /\ \E u \in SubjectRows :
          /\ u.company_id # last.identity.company_id
          /\ u.email # last.identity.email

\* C11: get_current_user_optional never lets an error out: it returns None
\* for absent credentials and whenever get_current_user would fail (also
\* for a verified token whose sub or company_id is missing or no number),
\* and the identity only when get_current_user succeeds.
C11_OptionalNeverSignals ==
    last.op = "get_current_user_optional" =>
        /\ last.status = 200
        /\ last.none <=> (token.form = "none" \/ get_current_user(token, now).status # 200)
        /\ ~last.none => last.identity = get_current_user(token, now).identity

\* what does hold: for absent credentials and for every token
\* get_current_user answers with an HTTPException, the result is None
OptionalNoneOnHttpErrors ==
    (last.op = "get_current_user_optional"
     /\ (token.form = "none" \/ get_current_user(token, now).status \in {401, 403, 404}))
        => (last.status = 200 /\ last.none)

\* C12: require_admin returns the identity only if the row of
\* identity.user_id exists now with is_admin = true, and answers 403 when
\* the row is missing or is_admin is false, whatever the token's is_admin
\* claim.
C12_AdminFromStore ==
    last.op = "require_admin" =>
        IF \E u \in users : u.id = last.cu.user_id /\ u.is_admin
        THEN last.status = 200 /\ last.identity = last.cu
        ELSE last.status = 403 /\ last.identity = NoIdentity

\* refused although the token was minted with is_admin = true
C12_Witness ==
    /\ last.op = "require_admin" /\ last.status = 403
    /\ token.form = "jws" /\ token.claims.is_admin
    /\ token.claims.sub.v = last.cu.user_id

----------------------------------------------------------------------------
(* Properties of the auth endpoints (Spec) *)

Issued == last.op \in {"register", "login"} /\ last.status = 200

\* C7: a token issued by /register or /login carries the claims sub (the
\* user's id as a string), company_id (the user's company_id as a string),
\* email (the user's email), exp and iat.
C7_IssuedTokenClaims ==
    Issued =>
        LET c == last.access_token.claims
        IN /\ {"sub", "company_id", "email", "exp", "iat"} \subseteq c.keys
           /\ c.sub = StrV(last.user.id)
           /\ c.company_id = StrV(last.user.company_id)
           /\ c.email = last.user.email

\* the four conditions on a password, read off the password itself
AllFour(password) ==
    password.len >= 8 /\ password.upper /\ password.lower /\ password.digit

C13_Step ==
    LET r == last'
    IN r.op = "register" =>
          /\ ~AllFour(r.req.password) =>
                /\ r.status = 400 /\ r.detail.msg = "Password must ..."
                /\ users' = users /\ companies' = companies
                /\ r.access_token = NoToken
          /\ r.detail.msg = "Password must ..." => ~AllFour(r.req.password)

\* C13: a registration whose password is shorter than 8 characters or
\* lacks an uppercase letter, a lowercase letter or a digit is refused
\* with 400 and the password message and writes no user and no company;
\* a password with all four properties is never refused as weak.
C13_WeakPasswordRejected == [][C13_Step]_vars

\* a password of 8 characters without a digit was refused while the email
\* and the company name were free
C13_Witness ==
    /\ last.op = "register" /\ last.status = 400
    /\ last.req.password = NoDigitPw
    /\ ~\E u \in users : u.email = last.req.email
    /\ ~\E c \in companies : c.slug = Slug(last.req.company_name)
    /\ users # {}

\* company names that differ at most in case and in " ", "_", "-"
Variant(n, m) ==
    /\ Len(n) = Len(m)
    /\ \A i \in 1 .. Len(n) : Dash(Lower(n[i])) = Dash(Lower(m[i]))

\* the registration asked for a name that is a variant of, and not equal
\* to, the name of a company in the store
VariantTaken(req) ==
    \E c \in companies : c.name # req.company_name /\ Variant(c.name, req.company_name)

C14_Step ==
    LET r == last'
    IN (r.op = "register" /\ VariantTaken(r.req)) =>
          /\ r.status = 400 /\ r.access_token = NoToken
          /\ companies' = companies /\ users' = users

\* C14: a registration whose company_name is a case/spacing variant of an
\* existing company's name (so that it derives the same slug) is refused
\* with 400, and the store holds no new company and no new user.
C14_SlugDuplicateRolledBack == [][C14_Step]_vars

\* refused at the flush of the company: strong password, free email, a name
\* no company has, and a company id consumed by the rolled-back INSERT
C14_Witness ==
    /\ last.op = "register" /\ last.status = 400
    /\ VariantTaken(last.req)
    /\ AllFour(last.req.password)
    /\ ~\E u \in users : u.email = last.req.email
    /\ ~\E c \in companies : c.name = last.req.company_name
    /\ nextCompanyId > Cardinality(companies) + 1

\* no company has the requested name or a variant of it
NameFree(req) ==
    ~\E c \in companies : Variant(c.name, req.company_name)

C15_Step ==
    LET r == last'
    IN /\ \A u, w \in users' :
             (u.company_id = w.company_id /\ u.email = w.email) => u = w
       /\ (r.op = "register" /\ AllFour(r.req.password) /\ NameFree(r.req)
           /\ \E u \in users : u.email = r.req.email) =>
             /\ r.status = 200
             /\ \E u \in users' \ users : u.email = r.req.email

\* C15: no two users of one company share an email, and a registration
\* (strong password, new company name) whose email is used so far only by
\* users of other companies is accepted.
C15_EmailUniquePerTenant == [][C15_Step]_vars

\* what does hold: no two users share an email within a company, nor, as
\* long as only registration writes users, across companies
EmailUniqueInStore ==
    \A u, w \in users : u.email = w.email => u = w

\* the hash of user u was made from this password
IsPasswordOf(password, u) ==
    u.hashed_password = hash_password(password, u.hashed_password.salt)

C16_Step ==
    LET r == last'
        rows == {u \in users : u.email = r.req.email}
    IN r.op = "login" =>
          /\ r.status = 200 =>
                /\ r.user \in rows /\ r.user.is_active
                /\ IsPasswordOf(r.req.password, r.user)
                /\ token' = r.access_token
                /\ r.access_token.claims.sub = StrV(r.user.id)
          /\ rows = {} => r.status = 401
          /\ (rows # {} /\ \A u \in rows : ~u.is_active) => r.status = 403
          /\ (rows # {} /\ \A u \in rows :
                  u.is_active /\ ~IsPasswordOf(r.req.password, u)) => r.status = 401
          /\ r.status # 200 => (r.access_token = NoToken /\ token' = token)
          /\ users' = users /\ companies' = companies

----------------------------------------------------------------------------
(* Properties of the recipient counter (SpecRecipients) *)

\* the campaign a request addressed, as the caller's company sees it
Addressed(r, rows) ==
    {c \in rows : c.id = r.campaign_id /\ c.company_id = r.cu.company_id}

SingleRecipientOps ==
    {"add_single_recipient", "delete_recipient", "delete_all_recipients"}

\* total_recipients of campaign `id` is the number of its rows in `recs`
CounterExact(rows, recs, id) ==
    \A c \in rows :
       c.id = id => c.total_recipients = Cardinality({x \in recs : x.campaign_id = id})

C23_Step ==
    LET r == last'
    IN r.op \in SingleRecipientOps =>
          /\ r.status \in {200, 201} =>
                CounterExact(campaigns', recipients', r.campaign_id)
          /\ r.status \notin {200, 201} =>
                campaigns' = campaigns /\ recipients' = recipients
          /\ \A c \in campaigns : c.id # r.campaign_id => c \in campaigns'

\* C23: after add_single_recipient, delete_recipient or delete_all_recipients
\* succeeds on a campaign, its total_recipients equals the number of its
\* Recipient rows; a call that fails (duplicate phone number, unknown
\* recipient or campaign) changes neither the rows nor any counter.
C23_CounterFollowsSingleOps == [][C23_Step]_vars

\* one of two recipients of a campaign was deleted
C23_Witness ==
    /\ last.op = "delete_recipient" /\ last.status = 200
    /\ \E c \in Addressed(last, campaigns) :
          c.total_recipients = 1 /\ Cardinality(RecipientsOf(c.id)) = 1

\* a second add of the same phone number was refused
AddRefused ==
    /\ last.op = "add_single_recipient" /\ last.status = 400
    /\ \E c \in Addressed(last, campaigns) : c.total_recipients = 1

UploadOps == {"add_bulk_recipients", "upload_recipients_csv"}

\* C24: after add_bulk_recipients or upload_recipients_csv commits, the
\* campaign's total_recipients equals the number of its Recipient rows.
C24_CounterFollowsUploads ==
    [][LET r == last'
       IN (r.op \in UploadOps /\ r.status = 200) =>
             CounterExact(campaigns', recipients', r.campaign_id)]_vars

\* what the uploads write: the number of rows the campaign had before
UploadWritesPreviousCount ==
    [][LET r == last'
       IN (r.op \in UploadOps /\ r.status = 200) =>
             \A c \in Addressed(r, campaigns') :
                c.total_recipients = Cardinality(RecipientsOf(r.campaign_id))]_vars

\* the phone numbers of an upload's rows that the campaign does not hold yet
NewPhones(campaign_id, phones) ==
    {phones[i] : i \in {j \in 1 .. Len(phones) : IsNew(campaign_id, phones[j])}}

\* the rows of an upload that carry a phone number
ValidRows(phones) == {i \in 1 .. Len(phones) : phones[i] # ""}

\* no (campaign_id, phone_number) pair is stored twice
RecipientPairsUnique ==
    \A x, y \in recipients :
       (x.campaign_id = y.campaign_id /\ x.phone_number = y.phone_number) => x = y

\* C25: an upload that read its rows answers 200; it adds one recipient for
\* each phone number of its valid rows that the campaign did not hold, keeps
\* the recipients there were, and counts every other valid row (a phone
\* number the campaign held, or a repeat of an earlier row) in
\* duplicate_count.
C25_UploadSkipsDuplicates ==
    [][LET r == last'
       IN (r.op \in UploadOps /\ r.status \in {200, 500}) =>
             /\ r.status = 200
             /\ recipients \subseteq recipients'
             /\ \A x \in recipients' \ recipients : x.campaign_id = r.campaign_id
             /\ {x.phone_number : x \in recipients' \ recipients}
                   = NewPhones(r.campaign_id, r.rows)
             /\ Cardinality(recipients' \ recipients)
                   = Cardinality(NewPhones(r.campaign_id, r.rows))
             /\ r.counts.added = Cardinality(NewPhones(r.campaign_id, r.rows))
             /\ r.counts.duplicate = Cardinality(ValidRows(r.rows))
                                        - Cardinality(NewPhones(r.campaign_id, r.rows))]_vars

\* the same for the uploads whose new phone numbers do not repeat
UploadSkipsStoredDuplicates ==
    [][LET r == last'
       IN (r.op \in UploadOps /\ r.status \in {200, 500}
           /\ ~HasDuplicate(SelectSeq(r.rows, LAMBDA ph : IsNew(r.campaign_id, ph)))) =>
             /\ r.status = 200
             /\ recipients \subseteq recipients'
             /\ {x.phone_number : x \in recipients' \ recipients}
                   = NewPhones(r.campaign_id, r.rows)
             /\ r.counts.added = Cardinality(NewPhones(r.campaign_id, r.rows))
             /\ r.counts.duplicate = Cardinality(ValidRows(r.rows))
                                        - Cardinality(NewPhones(r.campaign_id, r.rows))]_vars

----------------------------------------------------------------------------
(* Properties of the life of a campaign (SpecLifecycle) *)

C19_Step ==
    LET r == last'
    IN r.op = "send_campaign" =>
          \A c \in Addressed(r, campaigns) :
             IF c.status = "draft" /\ c.total_recipients > 0
             THEN /\ r.status = 200
                  /\ \E d \in Addressed(r, campaigns') :
                        /\ campaigns' = (campaigns \ {c}) \cup {d}
                        /\ d.status = "sending"
                        /\ d.started_at = now /\ d.started_at # NoTime
             ELSE /\ r.status = 400
                  /\ campaigns' = campaigns

\* C19: send_campaign on a campaign of the caller's company answers 200
\* exactly when the campaign is a draft with total_recipients > 0, and then
\* sets its status to sending and its started_at to the current time; in
\* every other case it answers 400 and leaves the campaign as it was.
C19_SendOnlyDraftWithRecipients == [][C19_Step]_vars

\* a draft with a recipient was sent after the clock moved
C19_Witness ==
    /\ last.op = "send_campaign" /\ last.status = 200
    /\ \E c \in Addressed(last, campaigns) :
          /\ c.status = "sending" /\ c.total_recipients > 0
          /\ c.started_at = now /\ now > 0

C21_Step ==
    LET r == last'
    IN r.op = "cancel_campaign" =>
          \A c \in Addressed(r, campaigns) :
             IF c.status \in {"completed", "cancelled"}
             THEN /\ r.status = 400
                  /\ campaigns' = campaigns
             ELSE c.status \in {"scheduled", "sending"} =>
                  /\ r.status = 200
                  /\ \E d \in Addressed(r, campaigns') :
                        /\ campaigns' = (campaigns \ {c}) \cup {d}
                        /\ d.status = "cancelled"

\* C21: cancel_campaign on a scheduled or sending campaign of the caller's
\* company answers 200 and sets its status to cancelled; on a campaign that
\* is already completed or cancelled it answers 400 and leaves it as it was.
C21_CancelUnlessFinished == [][C21_Step]_vars

\* a second cancel of a campaign that was sent and then cancelled is refused
C21_Witness ==
    /\ last.op = "cancel_campaign" /\ last.status = 400
    /\ \E c \in Addressed(last, campaigns) :
          c.status = "cancelled" /\ c.started_at # NoTime

\* a campaign that is being sent was cancelled
CancelledWhileSending ==
    /\ last.op = "cancel_campaign" /\ last.status = 200
    /\ \E c \in Addressed(last, campaigns) :
          c.status = "cancelled" /\ c.started_at # NoTime

C22_Step ==
    LET r == last'
        found == Addressed(r, campaigns)
    IN r.op = "delete_campaign" =>
          /\ found = {} =>
                /\ r.status = 404
                /\ campaigns' = campaigns /\ recipients' = recipients
          /\ \A c \in found :
                IF c.status = "sending"
                THEN /\ r.status = 400
                     /\ campaigns' = campaigns /\ recipients' = recipients
                ELSE /\ r.status = 204
                     /\ campaigns' = campaigns \ {c}
                     /\ recipients' = {x \in recipients : x.campaign_id # c.id}

\* C22: delete_campaign on a sending campaign answers 400 and keeps the
\* campaign and its recipients; in every other status it removes the campaign
\* and its recipients and nothing else; for an id that is unknown or belongs
\* to another company it answers not found and removes nothing.
C22_DeleteUnlessSending == [][C22_Step]_vars

\* a campaign that had a recipient was deleted, and its recipient with it
C22_Witness ==
    /\ last.op = "delete_campaign" /\ last.status = 204
    /\ nextRecipientId > 1 /\ recipients = {}
    /\ \A c \in campaigns : c.id # last.campaign_id

\* the delete of a campaign that is being sent was refused
DeleteRefused ==
    /\ last.op = "delete_campaign" /\ last.status = 400
    /\ \E c \in Addressed(last, campaigns) :
          c.status = "sending" /\ RecipientsOf(c.id) # {}

\* the delete of a campaign of another company found nothing
DeleteForeign ==
    /\ last.op = "delete_campaign" /\ last.status = 404
    /\ \E c \in campaigns : c.id = last.campaign_id /\ RecipientsOf(c.id) # {}

\* C27: every campaign whose status is sending has total_recipients > 0
\* and at least one Recipient row.
C27_SendingHasRecipients ==
    \A c \in campaigns :
       c.status = "sending" => (c.total_recipients > 0 /\ RecipientsOf(c.id) # {})

\* what send_campaign itself ensures: the campaign it starts has a positive
\* total_recipients
SentHasTotal ==
    [][(last'.op = "send_campaign" /\ last'.status = 200) =>
          \A d \in Addressed(last', campaigns') :
             d.status = "sending" /\ d.total_recipients > 0]_vars

FinishedStatuses == {"cancelled", "completed"}

\* C28: once the status of a campaign is cancelled or completed, no step
\* (update_campaign, send_campaign, cancel_campaign or a recipient operation)
\* changes it; the campaign can only disappear by being deleted.
C28_FinishedStatusesAbsorbing ==
    [][\A c \in campaigns :
          c.status \in FinishedStatuses =>
             /\ \A d \in campaigns' : d.id = c.id => d.status = c.status
             /\ (\A d \in campaigns' : d.id # c.id) =>
                   (last'.op = "delete_campaign" /\ last'.status = 204)]_vars

\* an update of the status of a completed campaign was refused
C28_Witness ==
    /\ last.op = "update_campaign" /\ last.status = 400
    /\ last.data.keys = {"status"} /\ last.data.status = "draft"
    /\ \E c \in Addressed(last, campaigns) : c.status = "completed"

\* a cancelled campaign with a recipient was not sent
SendOfCancelledRefused ==
    /\ last.op = "send_campaign" /\ last.status = 400
    /\ \E c \in Addressed(last, campaigns) :
          c.status = "cancelled" /\ c.total_recipients > 0

\* the columns of a campaign row
CampaignFields ==
    {"id", "name", "company_id", "created_by", "status", "scheduled_at",
     "started_at", "total_recipients", "sent_count", "delivered_count",
     "failed_count", "updated_at"}

\* an update is refused on a campaign that is not editable and changes
\* nothing; on an editable one it leaves every column of `kept` that the
\* request does not name as it was
UpdateKeeps(kept) ==
    LET r == last'
    IN r.op = "update_campaign" =>
          \A c \in Addressed(r, campaigns) :
             IF c.status \in {"draft", "scheduled"}
             THEN /\ r.status = 200
                  /\ \E d \in Addressed(r, campaigns') :
                        /\ campaigns' = (campaigns \ {c}) \cup {d}
                        /\ \A f \in kept \ r.data.keys : d[f] = c[f]
             ELSE /\ r.status = 400
                  /\ campaigns' = campaigns

C20_Step ==
    /\ UpdateKeeps(CampaignFields \ {"updated_at"})
    /\ (last'.op = "update_campaign" /\ last'.status = 200) =>
          \A d \in Addressed(last', campaigns') : d.updated_at = now

UpdateRefused ==
    /\ last.op = "update_campaign" /\ last.status = 400
    /\ \E c \in Addressed(last, campaigns) : c.status = "sending"

----------------------------------------------------------------------------
(* Properties of the rate limiter (SpecRate) *)

\* the requests of `key` that were allowed within the last window_seconds
AllowedInWindow(key, window_seconds) ==
    {i \in 1 .. Len(allowed) :
        allowed[i].key = key /\ allowed[i].ts > now - window_seconds}

\* C26: check_rate_limit allows a request exactly when fewer than
\* max_requests requests of the same key were allowed within the last
\* window_seconds; a rejected request is not recorded, and the lists of the
\* other keys stay as they are.
C26_AllowsExactlyBelowLimit ==
    [][LET r == last'
       IN r.op = "check_rate_limit" =>
             /\ r.ok = (Cardinality(AllowedInWindow(r.key, r.window_seconds))
                          < r.max_requests)
             /\ ~r.ok => allowed' = allowed
             /\ \A key \in RateKeys \ {r.key} : requests'[key] = requests[key]]_vars

\* what the limiter decides from: the timestamps it still holds for the key
AllowsBelowLimitOfHeld ==
    [][LET r == last'
       IN r.op = "check_rate_limit" =>
             /\ r.ok = (Len(clean_old_requests(r.key, r.window_seconds))
                          < r.max_requests)
             /\ ~r.ok => allowed' = allowed
             /\ r.ok => requests'[r.key]
                           = Append(clean_old_requests(r.key, r.window_seconds), now)
             /\ \A key \in RateKeys \ {r.key} : requests'[key] = requests[key]]_vars

\* the limiter holds, for each key, allowed requests only
HeldWereAllowed ==
    \A key \in RateKeys :
       \A i \in 1 .. Len(requests[key]) :
          \E j \in 1 .. Len(allowed) :
             allowed[j].key = key /\ allowed[j].ts = requests[key][i]

----------------------------------------------------------------------------
(* Properties of password hashing (SpecHash) *)

Distinct(hashes) ==
    \A i, j \in 1 .. Len(hashes) : i # j => hashes[i] # hashes[j]

\* C18: for every password p, hash_password(p) returns a hash that
\* verify_password(p, .) accepts, and no two calls of hash_password return
\* the same hash string, also for the same p.
C18_HashRoundTrip ==
    /\ last.op = "hash_password" =>
          /\ last.status = 200
          /\ verify_password(last.password, last.hashed)
          /\ Distinct(last.hashes)
    /\ (last.op = "verify_password"
        /\ last.hashed = hash_password(last.password, last.hashed.salt)) =>
          (last.status = 200 /\ last.verified)

\* what does hold: the round trip and the distinct hashes for every
\* password the hash library accepts, and a hash verifies no other password
HashRoundTripAccepted ==
    /\ (last.op = "hash_password" /\ ~last.password.nul) =>
          /\ last.status = 200
          /\ verify_password(last.password, last.hashed)
          /\ Distinct(last.hashes)
    /\ (last.op = "verify_password" /\ ~last.password.nul) =>
          (last.verified <=>
              last.hashed = hash_password(last.password, last.hashed.salt))

----------------------------------------------------------------------------
(* Properties of error reporting (SpecFailure) *)

FailureOps ==
    {"register_store_failure", "get_current_user_raises", "login_raises",
     "create_campaign_store_failure"}

\* C17: in production a lower-layer failure during a request is answered
\* with a 500 whose detail holds none of the exception's text.
C17_NoLeakInProduction ==
    (last.op \in FailureOps /\ last.environment = "production")
        => (last.status = 500 /\ last.detail.exc = "")

\* what does hold: an exception that leaves the endpoint is answered in
\* production with a generic 500
HandlersGenericInProduction ==
    (last.op \in FailureOps /\ last.environment = "production"
     /\ last.detail.msg \in {"Database error occurred", "An unexpected error occurred"})
        => (last.status = 500 /\ last.detail.exc = "")

----------------------------------------------------------------------------
(* Properties of the token codec (SpecCodec) *)

\* the held token is the one create_access_token returned, untouched
AsMinted ==
    /\ token.form = "jws"
    /\ token.sig = [key |-> SECRET_KEY, intact |-> TRUE, pad |-> 0]

DecodeResult == jwt_decode(token, SECRET_KEY, now)

\* C8: a token minted with expires_delta = 0 is rejected as expired at the
\* mint time and at every later time.
C8_ZeroTtlExpired ==
    (AsMinted /\ minted.expires_delta = Delta(0))
        => (decode_access_token(token, now).none
            /\ DecodeResult.err = "ExpiredSignatureError")

\* C9: a correctly signed token is accepted at every time now < exp and
\* rejected as expired at every time now >= exp.
C9_AcceptedUntilExpiry ==
    AsMinted =>
        /\ now < token.claims.exp => ~decode_access_token(token, now).none
        /\ now >= token.claims.exp =>
              (decode_access_token(token, now).none
               /\ DecodeResult.err = "ExpiredSignatureError")

\* C10: a token signed with another secret, or with one character of its
\* signature segment replaced, is rejected as invalid: never accepted, never
\* reported as expired.
C10_BadSignatureInvalid ==
    (token.form = "jws" /\ ~AsMinted)
        => (decode_access_token(token, now).none /\ DecodeResult.err = "JWTError")

\* what does hold: a token whose signature bytes are not the HMAC of its
\* header and payload under the configured secret is rejected as invalid
BadSignatureBytesInvalid ==
    (token.form = "jws" /\ (token.sig.key # SECRET_KEY \/ ~token.sig.intact))
        => (decode_access_token(token, now).none /\ DecodeResult.err = "JWTError")

============================================================================
